---- MODULE Spec2Model ----
(***************************************************************************)
(* Session login controller of lms/djangoapps/api_manager/sessions/views.py *)
(* SessionsList.post / SessionsList.login_user, SessionsDetail.get,        *)
(* SessionsDetail.post and SessionsDetail.delete, together with the shared *)
(* state they read and write: the Django session store, the auth_user      *)
(* table, the LoginFailures table and the bad-request rate limiter.        *)
(*                                                                         *)
(* In Spec and SpecAccounts every request handler is one action (a request *)
(* runs to completion); in SpecConcurrent two workers take upgrade         *)
(* requests through login_user step by step, side by side.                 *)
(***************************************************************************)
EXTENDS Integers, FiniteSets, Sequences, TLC

\* ---------------------------------------------------------------- bounds
MaxSessions == 2         \* session keys the store hands out in one behaviour
MaxFailureCount == 3     \* cap on LoginFailures.failure_count
MaxLogins == 2           \* cap on the readings of timezone.now()
MaxFailedAttemptsAllowed == 2   \* settings.MAX_FAILED_LOGIN_ATTEMPTS_ALLOWED
RateLimitRequests == 1   \* bad requests after which the limiter refuses

\* ------------------------------------------------------- program constants
HTTP_200_OK == 200
HTTP_201_CREATED == 201
HTTP_204_NO_CONTENT == 204
HTTP_401_UNAUTHORIZED == 401
HTTP_403_FORBIDDEN == 403
HTTP_404_NOT_FOUND == 404

SESSION_KEY == "_auth_user_id"
BACKEND_SESSION_KEY == "_auth_user_backend"
ModelBackend == "django.contrib.auth.backends.ModelBackend"

\* Python's None, for an absent user, session id, token or user id.
\* Account ids and session keys are positive.
None == 0

\* The ids of the accounts auth_user starts with.
Users == {1, 2}
\* Account u has username u; username 3 is never registered.
Usernames == Users \cup {3}
\* Every account's password is "edx"; "wrong" matches no account.
Passwords == {"edx", "wrong"}
SessionIds == 1..MaxSessions

\* A session's dictionary without fields (an anonymous session).
EmptySession == [k \in {} |-> None]

VARIABLES
    sessions,       \* the session store: session key -> session dictionary
    nextKey,        \* the next key SessionStore._get_new_session_key() returns
    registered,     \* ids of the rows of auth_user
    is_active,      \* auth_user.is_active, per account
    must_reset,     \* PasswordHistory.should_user_reset_password_now, per account
    last_login,     \* auth_user.last_login, per account (None: never)
    now,            \* the last reading of timezone.now()
    feature_enabled,\* settings.FEATURES['ENABLE_MAX_FAILED_LOGIN_ATTEMPTS']
    failure_count,  \* LoginFailures.failure_count, per account
    locked_out,     \* LoginFailures.lockout_until lies in the future, per account
    bad_requests,   \* the rate limiter's bad-request counter of the caller
    last,           \* the last request handled and its response
    inflight        \* per worker, the upgrade request it is in the middle of

vars == <<sessions, nextKey, registered, is_active, must_reset, last_login, now,
          feature_enabled, failure_count, locked_out, bad_requests, last, inflight>>

\* Variables no request handler of this controller assigns.
config == <<registered, is_active, must_reset, feature_enabled>>

\* ------------------------------------------------------------ collaborators

\* User.objects.get(username=...), ObjectDoesNotExist giving None.
ObjectsGet(username) ==
    IF username \in registered THEN username ELSE None

\* django.contrib.auth.authenticate: the account when the password matches,
\* whether or not the account is active, else None.
authenticate(username, password) ==
    IF username \in registered /\ password = "edx" THEN username ELSE None

\* backend.get_user(user_id): the account, None when no row has that id.
get_user(user_id) ==
    IF user_id \in registered THEN user_id ELSE None

\* BadRequestRateLimiter.is_rate_limit_exceeded(request)
is_rate_limit_exceeded ==
    bad_requests >= RateLimitRequests

\* BadRequestRateLimiter.tick_bad_request_counter(request)
tick_bad_request_counter ==
    bad_requests + 1

\* LoginFailures.is_feature_enabled()
is_feature_enabled ==
    feature_enabled

\* LoginFailures.is_user_locked_out(user)
is_user_locked_out(user) ==
    locked_out[user]

\* PasswordHistory.should_user_reset_password_now(user)
should_user_reset_password_now(user) ==
    must_reset[user]

\* LoginFailures.clear_lockout_counter(user): the account's record is dropped.
clear_lockout_counter(user) ==
    [failure_count |-> [failure_count EXCEPT ![user] = 0],
     locked_out    |-> [locked_out EXCEPT ![user] = FALSE]]

\* LoginFailures.increment_lockout_counter(user): one more failure; at the
\* allowed maximum the account is locked out for the lockout period.
increment_lockout_counter(user) ==
    [failure_count |-> [failure_count EXCEPT ![user] = @ + 1],
     locked_out    |-> [locked_out EXCEPT ![user] =
                           @ \/ failure_count[user] + 1 >= MaxFailedAttemptsAllowed]]

\* The LoginFailures table as it stands.
lockout_unchanged ==
    [failure_count |-> failure_count, locked_out |-> locked_out]

\* ------------------------------------------------------------ session store
\* A SessionStore object: its session_key, its dictionary (data), the store
\* as the object's calls have left it (store), and whether a key was drawn.

\* engine.SessionStore() then session.create(): a record without fields is
\* saved under a key drawn afresh.
SessionCreate ==
    [session_key |-> nextKey,
     data        |-> EmptySession,
     store       |-> (nextKey :> EmptySession) @@ sessions,
     created     |-> TRUE]

\* A store that keeps the key it is given when it holds no record of it.
SessionLoad_KeepsKey(session_id, creates) ==
    [session_key |-> session_id,
     data        |-> IF session_id \in DOMAIN sessions THEN sessions[session_id]
                     ELSE EmptySession,
     store       |-> sessions,
     created     |-> FALSE]

\* engine.SessionStore(session_id) and the first access to its dictionary
\* (load): the stored dictionary when the store holds the key. Otherwise the
\* given key is abandoned: Django before 1.4.21 / 1.7.9 / 1.8.3 calls
\* create() in load(), which stores a record without fields under a fresh
\* key (creates); later releases leave the object without a key until it is
\* saved. This module's source does not fix which Django is installed, so
\* each handler leaves `creates` open.
SessionLoad(session_id, creates) ==
    IF session_id \in DOMAIN sessions
    THEN [session_key |-> session_id,
          data        |-> sessions[session_id],
          store       |-> sessions,
          created     |-> FALSE]
    ELSE IF creates
    THEN SessionCreate
    ELSE [session_key |-> None,
          data        |-> EmptySession,
          store       |-> sessions,
          created     |-> FALSE]

\* The user id is set and the backend is left out.
SessionSetAuth_NoBackend(session, user_id, backend) ==
    [session EXCEPT !.data = (SESSION_KEY :> user_id) @@ session.data]

\* session[SESSION_KEY] = user_id; session[BACKEND_SESSION_KEY] = backend
SessionSetAuth(session, user_id, backend) ==
    [session EXCEPT !.data =
        (SESSION_KEY :> user_id) @@ (BACKEND_SESSION_KEY :> backend) @@ session.data]

\* The object as session.save() leaves it: an object without a key draws a
\* fresh one (save() calls create()).
SessionKeyed(session) ==
    IF session.session_key = None
    THEN [session EXCEPT !.session_key = nextKey, !.created = TRUE]
    ELSE session

\* A save that leaves a record that already carries an identity.
SessionSave_KeepsStored(session) ==
    IF /\ session.session_key \in DOMAIN session.store
       /\ SESSION_KEY \in DOMAIN session.store[session.session_key]
    THEN session.store
    ELSE (SessionKeyed(session).session_key :> session.data) @@ session.store

\* A save that stores the dictionary under a key drawn afresh.
SessionSave_NewKey(session) ==
    (nextKey :> session.data) @@ session.store

\* session.save(): the dictionary is stored under the object's key.
SessionSave(session) ==
    (SessionKeyed(session).session_key :> session.data) @@ session.store

\* A delete that empties the record and leaves it in the store.
SessionDelete_ClearsFields(session) ==
    (session.session_key :> EmptySession) @@ session.store

\* session.delete(): the record under the object's key is removed.
SessionDelete(session) ==
    [k \in DOMAIN session.store \ {session.session_key} |-> session.store[k]]

\* The key counter after the calls of a SessionStore object.
KeyAfter(session) ==
    IF session.created THEN nextKey + 1 ELSE nextKey

\* A session id a caller can name: a key the store has handed out, or an id
\* of the caller's making, which the store never hands out.
ForeignSessionId == MaxSessions + 2
NamedSessionIds == (1..(nextKey - 1)) \cup {ForeignSessionId}

\* ------------------------------------------------------------- the requests
\* A request and its response, as `last` keeps them: the operation and its
\* arguments, the HTTP status, response_data['message'], the token and user
\* id of the body, and the entry the request wrote to the audit log.
Request(op, username, password, session_id) ==
    [op |-> op, username |-> username, password |-> password, session_id |-> session_id]

Response(req, status, message, token, user_id, audit, audit_user) ==
    [op |-> req.op, username |-> req.username, password |-> req.password,
     session_id |-> req.session_id,
     status |-> status, message |-> message, token |-> token, user_id |-> user_id,
     audit |-> audit, audit_user |-> audit_user]

NoRequest ==
    Response(Request("none", None, "edx", None), None, "", None, None, "", None)

\* What a request leaves of the state it may write.
Effect(store, key, lockout, ticks, logins, clock) ==
    /\ sessions' = store
    /\ nextKey' = key
    /\ failure_count' = lockout.failure_count
    /\ locked_out' = lockout.locked_out
    /\ bad_requests' = ticks
    /\ last_login' = logins
    /\ now' = clock

NoEffect ==
    Effect(sessions, nextKey, lockout_unchanged, bad_requests, last_login, now)

\* ---- SessionsList.login_user, branch by branch

\* The rate limit is not consulted.
RateLimitExceeded_Unchecked ==
    FALSE

\* if limiter.is_rate_limit_exceeded(request)
RateLimitExceeded ==
    is_rate_limit_exceeded

\* The lockout is not consulted before the credentials.
AccountLockedOut_Unchecked(existing_user) ==
    FALSE

\* if existing_user and LoginFailures.is_feature_enabled():
\*     if LoginFailures.is_user_locked_out(existing_user)
AccountLockedOut(existing_user) ==
    /\ existing_user # None
    /\ is_feature_enabled
    /\ is_user_locked_out(existing_user)

\* The password policy is not consulted before the credentials.
PasswordExpired_Unchecked(existing_user) ==
    FALSE

\* if existing_user and PasswordHistory.should_user_reset_password_now(existing_user)
PasswordExpired(existing_user) ==
    /\ existing_user # None
    /\ should_user_reset_password_now(existing_user)

\* A successful authentication leaves the counter.
ClearOnSuccess_Skipped(user) ==
    lockout_unchanged

\* if LoginFailures.is_feature_enabled(): LoginFailures.clear_lockout_counter(user)
ClearOnSuccess(user) ==
    IF is_feature_enabled THEN clear_lockout_counter(user) ELSE lockout_unchanged

\* A failure is counted whether or not lockout tracking is enabled.
IncrementOnFailure_Unconditional(existing_user) ==
    increment_lockout_counter(existing_user)

\* if LoginFailures.is_feature_enabled():
\*     LoginFailures.increment_lockout_counter(existing_user)
IncrementOnFailure(existing_user) ==
    IF is_feature_enabled THEN increment_lockout_counter(existing_user)
    ELSE lockout_unchanged

\* The active flag is not consulted.
UserIsActive_Unchecked(user) ==
    TRUE

\* if user.is_active
UserIsActive(user) ==
    is_active[user]

\* session_id is None: a new session; else the session of that id
OpenSession(session_id, creates) ==
    IF session_id = None THEN SessionCreate ELSE SessionLoad(session_id, creates)

\* success_status
SuccessStatus(session_id) ==
    IF session_id = None THEN HTTP_201_CREATED ELSE HTTP_200_OK

\* The session's identity is not consulted before it is written.
AlreadyLoggedIn_Unchecked(session_id, session) ==
    FALSE

\* session_id is not None and SESSION_KEY in session
AlreadyLoggedIn(session_id, session) ==
    /\ session_id # None
    /\ SESSION_KEY \in DOMAIN session.data

\* The account's last_login is left as it is.
UpdateLastLogin_Skipped(user, clock) ==
    last_login

\* user.last_login = timezone.now(); user.save()
UpdateLastLogin(user, clock) ==
    [last_login EXCEPT ![user] = clock]

\* The login of an authenticated, active user.
LoginActiveUser(req, user, lockout) ==
    \E creates \in BOOLEAN :
    LET session == OpenSession(req.session_id, creates) IN
    /\ session.created => nextKey <= MaxSessions
    /\ IF AlreadyLoggedIn(req.session_id, session)
       THEN \* return Response({}, status=status.HTTP_403_FORBIDDEN)
            /\ Effect(session.store, KeyAfter(session), lockout, bad_requests,
                      last_login, now)
            /\ last' = Response(req, HTTP_403_FORBIDDEN, "", None, None, "", None)
       ELSE LET authed == SessionKeyed(SessionSetAuth(session, user, ModelBackend)) IN
            /\ authed.created => nextKey <= MaxSessions
            /\ now < MaxLogins
            /\ Effect(SessionSave(authed), KeyAfter(authed), lockout, bad_requests,
                      UpdateLastLogin(user, now + 1), now + 1)
            /\ last' = Response(req, SuccessStatus(req.session_id), "",
                                authed.session_key, user, "logged in", user)

\* The branch of an authenticated user: user is not None.
LoginAuthenticated(req, user) ==
    LET lockout == ClearOnSuccess(user) IN
    IF UserIsActive(user)
    THEN LoginActiveUser(req, user, lockout)
    ELSE /\ Effect(sessions, nextKey, lockout, bad_requests, last_login, now)
         /\ last' = Response(req, HTTP_403_FORBIDDEN, "", None, None, "", None)

\* The branch of a failed authentication: user is None.
LoginFailed(req, existing_user) ==
    /\ is_feature_enabled => failure_count[existing_user] < MaxFailureCount
    /\ Effect(sessions, nextKey, IncrementOnFailure(existing_user),
              tick_bad_request_counter, last_login, now)
    /\ last' = Response(req, HTTP_401_UNAUTHORIZED, "", None, None,
                        "authentication failed", existing_user)

\* An unknown username handled as a failed authentication.
LoginUnknown_AsBadCredentials(req) ==
    /\ Effect(sessions, nextKey, lockout_unchanged, tick_bad_request_counter,
              last_login, now)
    /\ last' = Response(req, HTTP_401_UNAUTHORIZED, "", None, None,
                        "authentication failed", None)

\* The branch of an unknown username: existing_user is None.
LoginUnknown(req) ==
    /\ NoEffect
    /\ last' = Response(req, HTTP_404_NOT_FOUND, "", None, None,
                        "unknown username", None)

login_user(username, password, session_id) ==
    LET req == Request("login", username, password, session_id)
        existing_user == ObjectsGet(username)
    IN
    /\ last = NoRequest
    /\ UNCHANGED <<config, inflight>>
    /\ IF RateLimitExceeded
       THEN /\ NoEffect
            /\ last' = Response(req, HTTP_403_FORBIDDEN, "rate limit exceeded",
                                None, None, "", None)
       ELSE IF AccountLockedOut(existing_user)
       THEN /\ NoEffect
            /\ last' = Response(req, HTTP_403_FORBIDDEN, "locked out",
                                None, None, "", None)
       ELSE IF PasswordExpired(existing_user)
       THEN /\ NoEffect
            /\ last' = Response(req, HTTP_403_FORBIDDEN, "password expired",
                                None, None, "", None)
       ELSE IF existing_user # None
       THEN LET user == authenticate(existing_user, password) IN
            IF user # None
            THEN LoginAuthenticated(req, user)
            ELSE LoginFailed(req, existing_user)
       ELSE LoginUnknown(req)

\* SessionsList.post
SessionsListPost(username, password) ==
    login_user(username, password, None)

\* SessionsDetail.post
SessionsDetailPost(username, password, session_id) ==
    login_user(username, password, session_id)

\* The identity is taken as valid without a look at auth_user.
AuthenticatedUser_Unresolved(data) ==
    IF SESSION_KEY \in DOMAIN data THEN data[SESSION_KEY] ELSE None

\* user_id = session[SESSION_KEY]; backend_path = session[BACKEND_SESSION_KEY]
\* user = backend.get_user(user_id) or AnonymousUser(); a KeyError on either
\* field gives AnonymousUser() too. None stands for AnonymousUser().
AuthenticatedUser(data) ==
    IF {SESSION_KEY, BACKEND_SESSION_KEY} \subseteq DOMAIN data
    THEN get_user(data[SESSION_KEY])
    ELSE None

\* if user.is_authenticated(): token and user_id with 200, else 404
GetResponse(req, session) ==
    LET user == AuthenticatedUser(session.data) IN
    IF user # None
    THEN Response(req, HTTP_200_OK, "", session.session_key, user, "", None)
    ELSE Response(req, HTTP_404_NOT_FOUND, "", None, None, "", None)

\* SessionsDetail.get
SessionsDetailGet(session_id) ==
    \E creates \in BOOLEAN :
    LET req == Request("get", None, "edx", session_id)
        session == SessionLoad(session_id, creates)
    IN
    /\ last = NoRequest
    /\ session.created => nextKey <= MaxSessions
    /\ UNCHANGED <<config, inflight>>
    /\ Effect(session.store, KeyAfter(session), lockout_unchanged, bad_requests,
              last_login, now)
    /\ last' = GetResponse(req, session)

\* SessionsDetail.delete
SessionsDetailDelete(session_id) ==
    \E creates \in BOOLEAN :
    LET req == Request("delete", None, "edx", session_id)
        session == SessionLoad(session_id, creates)
    IN
    /\ last = NoRequest
    /\ session.created => nextKey <= MaxSessions
    /\ UNCHANGED <<config, inflight>>
    /\ IF SESSION_KEY \notin DOMAIN session.data
       THEN /\ Effect(session.store, KeyAfter(session), lockout_unchanged,
                      bad_requests, last_login, now)
            /\ last' = Response(req, HTTP_204_NO_CONTENT, "", None, None, "", None)
       ELSE /\ Effect(SessionDelete(session), KeyAfter(session), lockout_unchanged,
                      bad_requests, last_login, now)
            /\ last' = Response(req, HTTP_204_NO_CONTENT, "", None, None,
                                "session terminated", session.data[SESSION_KEY])

\* ---- SessionsDetail.post handled by workers that run side by side
\* The handler holds no lock: between its statements another worker's can
\* run. A worker's request is taken through login_user in three steps, each
\* of them the statements between two accesses to the session store: the
\* checks up to `if user.is_active`, the opening of the session with the
\* test for a stored identity, and the write of the session and of
\* last_login. A worker keeps its local variables in `inflight`.
Workers == {1, 2}

\* A worker's locals: where it stands (pc), the user that authenticated,
\* the request's session id, the SessionStore object's key and dictionary,
\* and, once the response is built, its status and token and the reading of
\* timezone.now() it stored in last_login.
Locals(pc, user, session_id, session_key, data, status, token, login_at) ==
    [pc |-> pc, user |-> user, session_id |-> session_id,
     session_key |-> session_key, data |-> data,
     status |-> status, token |-> token, login_at |-> login_at]

Idle ==
    Locals("idle", None, None, None, EmptySession, None, None, None)

\* return Response(..., status=...) of a request that was refused
Refused(status) ==
    Locals("answered", None, None, None, EmptySession, status, None, None)

\* Worker w's locals become l; the other workers' stay.
Holds(w, l) ==
    inflight' = [inflight EXCEPT ![w] = l]

\* login_user up to `if user.is_active` (lines 64 to 113). The workers are
\* interchangeable: a request takes the first worker that is free.
LoginChecks(w, username, password, session_id) ==
    LET existing_user == ObjectsGet(username) IN
    /\ inflight[w].pc = "idle"
    /\ \A v \in Workers : v < w => inflight[v].pc # "idle"
    /\ UNCHANGED <<config, last>>
    /\ IF RateLimitExceeded
       THEN NoEffect /\ Holds(w, Refused(HTTP_403_FORBIDDEN))
       ELSE IF AccountLockedOut(existing_user)
       THEN NoEffect /\ Holds(w, Refused(HTTP_403_FORBIDDEN))
       ELSE IF PasswordExpired(existing_user)
       THEN NoEffect /\ Holds(w, Refused(HTTP_403_FORBIDDEN))
       ELSE IF existing_user # None
       THEN LET user == authenticate(existing_user, password) IN
            IF user # None
            THEN /\ Effect(sessions, nextKey, ClearOnSuccess(user), bad_requests,
                           last_login, now)
                 /\ IF UserIsActive(user)
                    THEN Holds(w, Locals("authenticated", user, session_id, None,
                                         EmptySession, None, None, None))
                    ELSE Holds(w, Refused(HTTP_403_FORBIDDEN))
            ELSE /\ is_feature_enabled => failure_count[existing_user] < MaxFailureCount
                 /\ Effect(sessions, nextKey, IncrementOnFailure(existing_user),
                           tick_bad_request_counter, last_login, now)
                 /\ Holds(w, Refused(HTTP_401_UNAUTHORIZED))
       ELSE NoEffect /\ Holds(w, Refused(HTTP_404_NOT_FOUND))

\* engine.SessionStore(session_id) and `if SESSION_KEY in session`
\* (lines 114 to 128).
LoginOpenSession(w) ==
    \E creates \in BOOLEAN :
    LET mine == inflight[w]
        session == OpenSession(mine.session_id, creates)
    IN
    /\ mine.pc = "authenticated"
    /\ session.created => nextKey <= MaxSessions
    /\ UNCHANGED <<config, last>>
    /\ Effect(session.store, KeyAfter(session), lockout_unchanged, bad_requests,
              last_login, now)
    /\ IF AlreadyLoggedIn(mine.session_id, session)
       THEN Holds(w, Refused(HTTP_403_FORBIDDEN))
       ELSE Holds(w, [mine EXCEPT !.pc = "opened",
                                  !.session_key = session.session_key,
                                  !.data = session.data])

\* The write of the session and of last_login and the building of the
\* response (lines 131 to 152): the object's dictionary, as it was loaded,
\* is stored under its key in the store as it now is.
LoginSave(w) ==
    LET mine == inflight[w]
        session == [session_key |-> mine.session_key, data |-> mine.data,
                    store |-> sessions, created |-> FALSE]
        authed == SessionKeyed(SessionSetAuth(session, mine.user, ModelBackend))
    IN
    /\ mine.pc = "opened"
    /\ authed.created => nextKey <= MaxSessions
    /\ now < MaxLogins
    /\ UNCHANGED <<config, last>>
    /\ Effect(SessionSave(authed), KeyAfter(authed), lockout_unchanged, bad_requests,
              UpdateLastLogin(mine.user, now + 1), now + 1)
    /\ Holds(w, [mine EXCEPT !.pc = "answered",
                             !.status = SuccessStatus(mine.session_id),
                             !.token = authed.session_key,
                             !.login_at = now + 1])

\* return Response(response_data, status=response_status) (line 166): the
\* worker is free for the next request.
LoginReturn(w) ==
    /\ inflight[w].pc = "answered"
    /\ Holds(w, Idle)
    /\ UNCHANGED <<sessions, nextKey, config, last_login, now, failure_count,
                   locked_out, bad_requests, last>>

\* The response goes out to the caller; the next request can be taken.
ResponseSent ==
    /\ last # NoRequest
    /\ last' = NoRequest
    /\ UNCHANGED <<sessions, nextKey, config, last_login, now, failure_count,
                   locked_out, bad_requests, inflight>>

\* --------------------------------------------------------- the environment
\* The environment's steps fall between requests.
\* Another part of the LMS opens an anonymous session.
AnonymousSessionOpened ==
    /\ last = NoRequest
    /\ nextKey <= MaxSessions
    /\ sessions' = SessionCreate.store
    /\ nextKey' = nextKey + 1
    /\ UNCHANGED <<config, last_login, now, failure_count, locked_out, bad_requests,
                   last, inflight>>

\* The store expires a session.
SessionExpires(session_key) ==
    /\ last = NoRequest
    /\ session_key \in DOMAIN sessions
    /\ sessions' = [k \in DOMAIN sessions \ {session_key} |-> sessions[k]]
    /\ UNCHANGED <<nextKey, config, last_login, now, failure_count, locked_out,
                   bad_requests, last, inflight>>

\* The lockout period of an account runs out; the failure count stays.
LockoutPeriodElapses(user) ==
    /\ last = NoRequest
    /\ locked_out[user]
    /\ locked_out' = [locked_out EXCEPT ![user] = FALSE]
    /\ UNCHANGED <<sessions, nextKey, config, last_login, now, failure_count,
                   bad_requests, last, inflight>>

\* The rate limiter's window moves past the caller's bad requests.
RateLimitWindowElapses ==
    /\ last = NoRequest
    /\ bad_requests > 0
    /\ bad_requests' = 0
    /\ UNCHANGED <<sessions, nextKey, config, last_login, now, failure_count,
                   locked_out, last, inflight>>

\* An account is removed from auth_user, and its LoginFailures record with it.
AccountRemoved(user) ==
    /\ last = NoRequest
    /\ user \in registered
    /\ registered' = registered \ {user}
    /\ is_active' = [is_active EXCEPT ![user] = FALSE]
    /\ must_reset' = [must_reset EXCEPT ![user] = FALSE]
    /\ last_login' = [last_login EXCEPT ![user] = None]
    /\ failure_count' = [failure_count EXCEPT ![user] = 0]
    /\ locked_out' = [locked_out EXCEPT ![user] = FALSE]
    /\ UNCHANGED <<sessions, nextKey, feature_enabled, now, bad_requests, last,
                   inflight>>

\* ------------------------------------------------------- the specification
\* An account's flags as a number, to list the configurations of auth_user
\* once each: the accounts are interchangeable (no handler reads an id's
\* value), so Init takes them in the order of their flags.
Profile(active, reset, user) ==
    (IF active[user] THEN 2 ELSE 0) + (IF reset[user] THEN 1 ELSE 0)

Init ==
    /\ sessions = EmptySession
    /\ nextKey = 1
    /\ registered = Users
    /\ is_active \in [Users -> BOOLEAN]
    /\ must_reset \in [Users -> BOOLEAN]
    /\ \A u, v \in Users :
          u < v => Profile(is_active, must_reset, u) <= Profile(is_active, must_reset, v)
    \* The active flag of an account whose password is expired is never read.
    /\ \A u \in Users : must_reset[u] => is_active[u]
    /\ last_login = [u \in Users |-> None]
    /\ now = 0
    /\ feature_enabled \in BOOLEAN
    /\ failure_count = [u \in Users |-> 0]
    /\ locked_out = [u \in Users |-> FALSE]
    /\ bad_requests = 0
    /\ last = NoRequest
    /\ inflight = [w \in Workers |-> Idle]

Next ==
    \/ \E username \in Usernames, password \in Passwords :
          SessionsListPost(username, password)
    \/ \E username \in Usernames, password \in Passwords, session_id \in NamedSessionIds :
          SessionsDetailPost(username, password, session_id)
    \/ \E session_id \in NamedSessionIds : SessionsDetailGet(session_id)
    \/ \E session_id \in NamedSessionIds : SessionsDetailDelete(session_id)
    \/ ResponseSent
    \/ AnonymousSessionOpened
    \/ \E session_key \in SessionIds : SessionExpires(session_key)
    \/ \E user \in Users : LockoutPeriodElapses(user)
    \/ RateLimitWindowElapses

Spec == Init /\ [][Next]_vars

\* The controller while accounts are also being removed.
NextAccounts ==
    \/ Next
    \/ \E user \in Users : AccountRemoved(user)

SpecAccounts == Init /\ [][NextAccounts]_vars

\* SessionsDetail.post requests handled by the workers side by side.
NextConcurrent ==
    \/ \E w \in Workers, username \in Usernames, password \in Passwords,
          session_id \in NamedSessionIds :
          LoginChecks(w, username, password, session_id)
    \/ \E w \in Workers : LoginOpenSession(w)
    \/ \E w \in Workers : LoginSave(w)
    \/ \E w \in Workers : LoginReturn(w)
    \/ AnonymousSessionOpened
    \/ RateLimitWindowElapses

\* The workers are taken with lockout tracking switched off.
InitConcurrent ==
    Init /\ ~ feature_enabled

SpecConcurrent == InitConcurrent /\ [][NextConcurrent]_vars

\* ------------------------------------------------------------ the claims
\* A step that handles a create-or-upgrade request; last' holds the request
\* and its response, the unprimed variables the state the request met.
LoginStep ==
    last.op = "none" /\ last'.op = "login"

\* A step that handles a request of this controller.
ControllerStep ==
    last.op = "none" /\ last'.op \in {"login", "get", "delete"}

\* The request's username resolves to an account.
KnownUser ==
    last'.username \in registered

\* The request passes the rate limit, lockout and password-expiry checks.
PassesChecks ==
    /\ bad_requests < RateLimitRequests
    /\ KnownUser
    /\ ~ (feature_enabled /\ locked_out[last'.username])
    /\ ~ must_reset[last'.username]

SessionStoreUnchanged ==
    sessions' = sessions /\ nextKey' = nextKey

LockoutUnchanged ==
    failure_count' = failure_count /\ locked_out' = locked_out

\* C1: with lockout tracking enabled and the caller not rate limited, a
\* create-or-upgrade request for a locked-out account is answered 403 for a
\* correct and for a wrong password alike, no session is created or
\* upgraded, and the lockout counter is neither cleared nor incremented.
C1_LockedOutForbidden ==
    [][ ( /\ LoginStep
          /\ bad_requests < RateLimitRequests
          /\ feature_enabled
          /\ KnownUser
          /\ locked_out[last'.username] )
        => /\ last'.status = HTTP_403_FORBIDDEN
           /\ last'.token = None
           /\ SessionStoreUnchanged
           /\ LockoutUnchanged ]_vars

\* A locked-out account was refused although the password was correct.
C1_Witness ==
    /\ last.op = "login"
    /\ last.password = "edx"
    /\ last.status = HTTP_403_FORBIDDEN
    /\ last.message = "locked out"
    /\ feature_enabled
    /\ last.username \in registered
    /\ locked_out[last.username]
    /\ failure_count[last.username] >= MaxFailedAttemptsAllowed

\* C2: with the caller not rate limited and the account not locked out, a
\* create-or-upgrade request with the correct password for an account whose
\* password is expired is answered 403 and nothing was touched: no session
\* is created, loaded or written, and no authentication took place (no
\* lockout counter cleared, no bad request ticked, no last login written).
C2_ExpiredForbidden ==
    [][ ( /\ LoginStep
          /\ bad_requests < RateLimitRequests
          /\ KnownUser
          /\ ~ (feature_enabled /\ locked_out[last'.username])
          /\ must_reset[last'.username]
          /\ last'.password = "edx" )
        => /\ last'.status = HTTP_403_FORBIDDEN
           /\ last'.token = None
           /\ SessionStoreUnchanged
           /\ LockoutUnchanged
           /\ bad_requests' = bad_requests
           /\ last_login' = last_login
           /\ now' = now ]_vars

\* An upgrade of an existing anonymous session was refused for an expired
\* password, and the session is still anonymous.
C2_Witness ==
    /\ last.op = "login"
    /\ last.password = "edx"
    /\ last.status = HTTP_403_FORBIDDEN
    /\ last.message = "password expired"
    /\ last.username \in registered
    /\ must_reset[last.username]
    /\ is_active[last.username]
    /\ last.session_id \in DOMAIN sessions
    /\ sessions[last.session_id] = EmptySession

\* C3: an upgrade request (session id given, correct password, active
\* account, passing the earlier checks) for a session that already carries
\* an authenticated identity is answered 403 and leaves the session store as
\* it was, whether the stored identity is the user logging in or another.
C3_NoOverwrite ==
    [][ ( /\ LoginStep
          /\ PassesChecks
          /\ last'.password = "edx"
          /\ is_active[last'.username]
          /\ last'.session_id \in DOMAIN sessions
          /\ SESSION_KEY \in DOMAIN sessions[last'.session_id] )
        => /\ last'.status = HTTP_403_FORBIDDEN
           /\ last'.token = None
           /\ SessionStoreUnchanged ]_vars

\* An active user with the correct password was refused the upgrade of a
\* session that carries another user's identity.
C3_Witness ==
    /\ last.op = "login"
    /\ last.password = "edx"
    /\ last.status = HTTP_403_FORBIDDEN
    /\ last.message = ""
    /\ last.username \in registered
    /\ is_active[last.username]
    /\ last.session_id \in DOMAIN sessions
    /\ SESSION_KEY \in DOMAIN sessions[last.session_id]
    /\ sessions[last.session_id][SESSION_KEY] # last.username

\* C4: a session that carries an authenticated identity keeps exactly its
\* fields through every request of the controller, except that a delete
\* request naming it removes it: no request makes it anonymous or gives it
\* another identity.
C4_OneWay ==
    [][ ControllerStep =>
        \A k \in DOMAIN sessions :
            SESSION_KEY \in DOMAIN sessions[k] =>
                \/ /\ k \in DOMAIN sessions'
                   /\ sessions'[k] = sessions[k]
                \/ /\ k \notin DOMAIN sessions'
                   /\ last'.op = "delete"
                   /\ last'.session_id = k ]_vars

\* A session carries one user's identity while another user has just
\* upgraded a different session.
C4_Witness ==
    /\ last.op = "login"
    /\ last.status = HTTP_200_OK
    /\ \E k \in DOMAIN sessions :
          /\ k # last.token
          /\ SESSION_KEY \in DOMAIN sessions[k]
          /\ sessions[k][SESSION_KEY] # last.user_id

\* C5 as claimed: a create-or-upgrade request with the correct password for
\* an inactive account (passing the earlier checks) is answered 403 and
\* leaves the session store, the lockout counter, the rate limiter's counter
\* and the last-login timestamps as they were.
C5_InactiveNoChange ==
    [][ ( /\ LoginStep
          /\ PassesChecks
          /\ last'.password = "edx"
          /\ ~ is_active[last'.username] )
        => /\ last'.status = HTTP_403_FORBIDDEN
           /\ SessionStoreUnchanged
           /\ LockoutUnchanged
           /\ bad_requests' = bad_requests
           /\ last_login' = last_login ]_vars

\* C5 as amended: such a request is answered 403 and leaves the session
\* store, the rate limiter's counter and the last-login timestamps as they
\* were; with lockout tracking enabled the account's lockout counter is
\* cleared (the other accounts' counters stay), with it disabled the
\* counters stay.
C5_InactiveClearsCounterOnly ==
    [][ ( /\ LoginStep
          /\ PassesChecks
          /\ last'.password = "edx"
          /\ ~ is_active[last'.username] )
        => /\ last'.status = HTTP_403_FORBIDDEN
           /\ last'.token = None
           /\ SessionStoreUnchanged
           /\ bad_requests' = bad_requests
           /\ last_login' = last_login
           /\ now' = now
           /\ failure_count' = IF feature_enabled
                               THEN [failure_count EXCEPT ![last'.username] = 0]
                               ELSE failure_count
           /\ locked_out' = locked_out ]_vars

\* An inactive account with the correct password was refused the upgrade of
\* an existing anonymous session, with lockout tracking enabled.
C5_Witness ==
    /\ last.op = "login"
    /\ last.password = "edx"
    /\ last.status = HTTP_403_FORBIDDEN
    /\ last.message = ""
    /\ feature_enabled
    /\ last.username \in registered
    /\ ~ is_active[last.username]
    /\ last.session_id \in DOMAIN sessions
    /\ sessions[last.session_id] = EmptySession

\* C6: a session key the store has handed out and holds no more stays out
\* of the store through every request of the controller, an upgrade request
\* that names it included; a key of the caller's making never enters it.
C6_NoResurrection ==
    [][ ControllerStep =>
        \A k \in (1..(nextKey - 1)) \cup {ForeignSessionId} :
            k \notin DOMAIN sessions => k \notin DOMAIN sessions' ]_vars

\* An upgrade request that named a removed session was answered with a
\* session of another key, and the named one is still gone.
C6_Witness ==
    /\ last.op = "login"
    /\ last.status = HTTP_200_OK
    /\ last.session_id \in 1..(nextKey - 1)
    /\ last.session_id \notin DOMAIN sessions
    /\ last.token # last.session_id
    /\ last.token \in DOMAIN sessions
    /\ sessions[last.token][SESSION_KEY] = last.username

\* C7: a create-or-upgrade request with a wrong password for an existing
\* account (passing the earlier checks) is answered 401, adds exactly one to
\* that account's lockout counter when lockout tracking is enabled and
\* nothing when it is disabled, adds one bad request to the rate limiter,
\* and creates or modifies no session.
C7_BadCredentials ==
    [][ ( /\ LoginStep
          /\ PassesChecks
          /\ last'.password # "edx" )
        => /\ last'.status = HTTP_401_UNAUTHORIZED
           /\ last'.token = None
           /\ failure_count' = IF feature_enabled
                               THEN [failure_count EXCEPT ![last'.username] = @ + 1]
                               ELSE failure_count
           /\ bad_requests' = bad_requests + 1
           /\ SessionStoreUnchanged
           /\ last_login' = last_login ]_vars

\* A wrong password for an active account was answered 401 on an upgrade
\* request and the account's counter stands at one.
C7_Witness ==
    /\ last.op = "login"
    /\ last.password = "wrong"
    /\ last.status = HTTP_401_UNAUTHORIZED
    /\ feature_enabled
    /\ last.username \in registered
    /\ is_active[last.username]
    /\ failure_count[last.username] = 1
    /\ bad_requests = 1
    /\ last.session_id \in DOMAIN sessions

\* The request's credentials reach authenticate() and authenticate.
Authenticates ==
    PassesChecks /\ last'.password = "edx"

\* C8: with lockout tracking enabled, a login attempt that fails the
\* credential check (401) leaves the account's counter strictly higher, a
\* login attempt whose credentials authenticate leaves it at zero, and no
\* other request of the controller lowers a counter.
C8_CounterMonotone ==
    [][ (ControllerStep /\ feature_enabled) =>
          /\ (LoginStep /\ last'.status = HTTP_401_UNAUTHORIZED)
                => failure_count'[last'.username] > failure_count[last'.username]
          /\ (LoginStep /\ Authenticates)
                => failure_count'[last'.username] = 0
          /\ \A u \in Users :
                failure_count'[u] < failure_count[u]
                   => LoginStep /\ Authenticates /\ u = last'.username ]_vars

\* A second failure in a row: the counter stands above one after a 401.
C8_Witness ==
    /\ last.op = "login"
    /\ last.status = HTTP_401_UNAUTHORIZED
    /\ feature_enabled
    /\ last.username \in registered
    /\ failure_count[last.username] >= 2

\* C9: with the caller not rate limited, a create-or-upgrade request whose
\* username resolves to no account is answered 404 and changes neither the
\* session store nor the lockout counters, for every password and with or
\* without a session id.
C9_UnknownUser ==
    [][ ( /\ LoginStep
          /\ bad_requests < RateLimitRequests
          /\ ~ KnownUser )
        => /\ last'.status = HTTP_404_NOT_FOUND
           /\ last'.token = None
           /\ SessionStoreUnchanged
           /\ LockoutUnchanged ]_vars

\* An unknown username was answered 404 on an upgrade request that named an
\* existing anonymous session, with the password that accounts use.
C9_Witness ==
    /\ last.op = "login"
    /\ last.status = HTTP_404_NOT_FOUND
    /\ last.password = "edx"
    /\ last.username \notin registered
    /\ last.session_id \in DOMAIN sessions
    /\ sessions[last.session_id] = EmptySession

\* C10: a create-or-upgrade request of a caller over the bad-request rate
\* is answered 403 for every username and password, and leaves the session
\* store, the lockout counters, the rate limiter's counter and the
\* last-login timestamps as they were.
C10_RateLimited ==
    [][ ( /\ LoginStep
          /\ bad_requests >= RateLimitRequests )
        => /\ last'.status = HTTP_403_FORBIDDEN
           /\ last'.message = "rate limit exceeded"
           /\ last'.token = None
           /\ SessionStoreUnchanged
           /\ LockoutUnchanged
           /\ bad_requests' = bad_requests
           /\ last_login' = last_login
           /\ now' = now ]_vars

\* A rate-limited caller was refused although the account is active, not
\* locked out, not expired, and the password was correct.
C10_Witness ==
    /\ last.op = "login"
    /\ last.status = HTTP_403_FORBIDDEN
    /\ last.message = "rate limit exceeded"
    /\ last.password = "edx"
    /\ last.username \in registered
    /\ is_active[last.username]
    /\ ~ must_reset[last.username]
    /\ ~ locked_out[last.username]
    /\ bad_requests >= RateLimitRequests

\* A step that handles a get request.
GetStep ==
    last.op = "none" /\ last'.op = "get"

\* A step that handles a delete request.
DeleteStep ==
    last.op = "none" /\ last'.op = "delete"

\* The session of the request's id carries an authenticated identity.
NamesAuthenticatedSession ==
    /\ last'.session_id \in DOMAIN sessions
    /\ SESSION_KEY \in DOMAIN sessions[last'.session_id]

\* C11: a delete on a session that carries an authenticated identity is
\* answered 204 and removes the session's record; the record of a key the
\* store has handed out does not come back once it is gone, and a get on a
\* session id without a record is answered 404, so every later get on the
\* deleted id is answered 404.
C11_DeletedThenNotFound ==
    [][ /\ (DeleteStep /\ NamesAuthenticatedSession)
            => /\ last'.status = HTTP_204_NO_CONTENT
               /\ last'.session_id \notin DOMAIN sessions'
        /\ \A k \in 1..(nextKey - 1) :
              k \notin DOMAIN sessions
              => /\ k \notin DOMAIN sessions'
                 /\ (GetStep /\ last'.session_id = k)
                       => last'.status = HTTP_404_NOT_FOUND ]_vars

\* An authenticated session was deleted: its termination is in the audit
\* log and its record is gone.
C11_Witness ==
    /\ last.op = "delete"
    /\ last.audit = "session terminated"
    /\ last.audit_user \in Users
    /\ last.status = HTTP_204_NO_CONTENT
    /\ last.session_id \notin DOMAIN sessions

\* C12: every delete is answered 204, and a delete on a session id that has
\* no record or whose session carries no authenticated identity does nothing
\* more: the session store is the same after it as before it and no
\* termination is written to the audit log, so a repeated delete leaves the
\* state a single delete leaves.
C12_DeleteIdempotent ==
    [][ DeleteStep
        => /\ last'.status = HTTP_204_NO_CONTENT
           /\ ~ NamesAuthenticatedSession
                => /\ sessions' = sessions
                   /\ last'.audit = "" ]_vars

\* The request is a create request (no session id) with the correct password
\* of an active account that passes the rate limit, lockout and expiry checks.
CreatesForActiveUser ==
    /\ LoginStep
    /\ last'.session_id = None
    /\ Authenticates
    /\ is_active[last'.username]

\* The response a get on the given session id is given in this state.
GetOn(session_id) ==
    GetResponse(Request("get", None, "edx", session_id), SessionLoad(session_id, FALSE))

\* C13: a create request without session id, with the correct password of an
\* active, unlocked, non-expired account, is answered 201 with a token that
\* names a session no record or earlier token had, whose authenticated-user
\* field is the account's id; a get on that token is then answered 200 with
\* that account's id as user_id.
C13_CreateNewSession ==
    [][ CreatesForActiveUser
        => /\ last'.status = HTTP_201_CREATED
           /\ last'.token \notin DOMAIN sessions
           /\ last'.token \notin 1..(nextKey - 1)
           /\ last'.token \in DOMAIN sessions'
           /\ sessions'[last'.token][SESSION_KEY] = last'.username
           /\ last'.user_id = last'.username
           /\ GetOn(last.token)'.status = HTTP_200_OK
           /\ GetOn(last.token)'.user_id = last'.username
           /\ GetOn(last.token)'.token = last'.token ]_vars

\* A create request was answered 201 and its token names a session that
\* carries the account's id.
C13_Witness ==
    /\ last.op = "login"
    /\ last.session_id = None
    /\ last.status = HTTP_201_CREATED
    /\ last.token \in DOMAIN sessions
    /\ sessions[last.token][SESSION_KEY] = last.username
    /\ GetOn(last.token).status = HTTP_200_OK

\* The request is an upgrade request naming a session that has a record
\* without authenticated identity, with the correct password of an active
\* account that passes the rate limit, lockout and expiry checks.
UpgradesAnonymousSession ==
    /\ LoginStep
    /\ Authenticates
    /\ is_active[last'.username]
    /\ last'.session_id \in DOMAIN sessions
    /\ SESSION_KEY \notin DOMAIN sessions[last'.session_id]

\* C14: an upgrade request naming an existing anonymous session, with the
\* correct password of an active account, is answered 200 with the given
\* session id as token; afterwards that session carries the account's id as
\* its authenticated-user field, every other session record is as it was,
\* and the store holds the same session ids as before (no record is added
\* and no key is drawn).
C14_UpgradeKeepsToken ==
    [][ UpgradesAnonymousSession
        => /\ last'.status = HTTP_200_OK
           /\ last'.token = last'.session_id
           /\ last'.user_id = last'.username
           /\ DOMAIN sessions' = DOMAIN sessions
           /\ nextKey' = nextKey
           /\ sessions'[last'.session_id][SESSION_KEY] = last'.username
           /\ \A k \in DOMAIN sessions \ {last'.session_id} :
                 sessions'[k] = sessions[k] ]_vars

\* An anonymous session was upgraded under its own id while the store holds
\* another session that carries no identity.
C14_Witness ==
    /\ last.op = "login"
    /\ last.status = HTTP_200_OK
    /\ last.token = last.session_id
    /\ last.session_id \in DOMAIN sessions
    /\ sessions[last.session_id][SESSION_KEY] = last.username
    /\ \E k \in DOMAIN sessions \ {last.session_id} :
          SESSION_KEY \notin DOMAIN sessions[k]

\* The session of the request's id has a record with both authentication
\* fields whose user id is the id of an account.
NamesResolvableSession ==
    /\ last'.session_id \in DOMAIN sessions
    /\ {SESSION_KEY, BACKEND_SESSION_KEY} \subseteq DOMAIN sessions[last'.session_id]
    /\ sessions[last'.session_id][SESSION_KEY] \in registered

\* C15: a get is answered 200 with the session id as token and the stored
\* user id exactly when the session has a record that carries the
\* authenticated-user field and the backend field and the user id is the id
\* of an account; for a session id without a record, an anonymous session
\* and an identity whose account is gone it is answered 404 without token.
C15_GetStatus ==
    [][ GetStep
        => IF NamesResolvableSession
           THEN /\ last'.status = HTTP_200_OK
                /\ last'.token = last'.session_id
                /\ last'.user_id = sessions[last'.session_id][SESSION_KEY]
           ELSE /\ last'.status = HTTP_404_NOT_FOUND
                /\ last'.token = None
                /\ last'.user_id = None ]_vars

\* A get on a session whose stored identity no longer resolves to an account
\* was answered 404.
C15_Witness ==
    /\ last.op = "get"
    /\ last.status = HTTP_404_NOT_FOUND
    /\ last.session_id \in DOMAIN sessions
    /\ {SESSION_KEY, BACKEND_SESSION_KEY} \subseteq DOMAIN sessions[last.session_id]
    /\ sessions[last.session_id][SESSION_KEY] \notin registered

\* C16: a get request, whatever session id it names (an authenticated
\* session, an anonymous one, a deleted one or one never created), leaves
\* the session store, the lockout counters, the rate limiter's counter and
\* the accounts' last-login timestamps as they were.
C16_GetNoSideEffects ==
    [][ GetStep
        => /\ sessions' = sessions
           /\ LockoutUnchanged
           /\ bad_requests' = bad_requests
           /\ last_login' = last_login ]_vars

\* The response reports success.
Succeeded ==
    last'.status \in {HTTP_200_OK, HTTP_201_CREATED}

\* C18: a create-or-upgrade request is answered 200, 201, 401, 403 or 404;
\* it changes the session store exactly when it is answered 200 or 201, and
\* it changes a last-login timestamp exactly when it is answered 200 or 201,
\* in which case the timestamp of the account logging in, and no other, is
\* the one that changes. A request answered 401, 403 or 404 leaves all
\* session records and all last-login timestamps as they were.
C18_WritesIffSuccess ==
    [][ LoginStep
        => /\ last'.status \in {HTTP_200_OK, HTTP_201_CREATED, HTTP_401_UNAUTHORIZED,
                                HTTP_403_FORBIDDEN, HTTP_404_NOT_FOUND}
           /\ Succeeded <=> sessions' # sessions
           /\ Succeeded <=> last_login' # last_login
           /\ Succeeded
                => /\ last_login'[last'.username] # last_login[last'.username]
                   /\ \A u \in Users \ {last'.username} :
                         last_login'[u] = last_login[u] ]_vars

\* A second login of an account was answered with success: its session is
\* written and its last-login timestamp is that login's, later than the
\* account's first.
C18_Witness ==
    /\ last.op = "login"
    /\ last.status \in {HTTP_200_OK, HTTP_201_CREATED}
    /\ last.token \in DOMAIN sessions
    /\ sessions[last.token][SESSION_KEY] = last.username
    /\ last_login[last.username] = now
    /\ now > 1
    /\ \A u \in Users \ {last.username} : last_login[u] = None

\* C19: of the requests of this controller only a create-or-upgrade request
\* answered 401 ticks the rate limiter's bad-request counter, by one; every
\* other request (answered 200, 201, 204, 403 or 404) leaves the counter as
\* it was. A request with an unknown username is never answered 401, so it
\* never ticks the counter.
C19_TickOnlyOn401 ==
    [][ ControllerStep
        => /\ bad_requests' = IF last'.op = "login" /\ last'.status = HTTP_401_UNAUTHORIZED
                              THEN bad_requests + 1
                              ELSE bad_requests
           /\ (last'.op = "login" /\ ~ KnownUser)
                => /\ last'.status \in {HTTP_403_FORBIDDEN, HTTP_404_NOT_FOUND}
                   /\ bad_requests' = bad_requests ]_vars

\* A request with an unknown username and a wrong password was answered 404
\* and the rate limiter has counted no bad request.
C19_Witness ==
    /\ last.op = "login"
    /\ last.username \notin registered
    /\ last.password = "wrong"
    /\ last.status = HTTP_404_NOT_FOUND
    /\ bad_requests = 0

\* Workers v and w have both built a 200 response with the same token.
BothUpgraded(v, w) ==
    /\ v # w
    /\ inflight[v].pc = "answered"
    /\ inflight[w].pc = "answered"
    /\ inflight[v].status = HTTP_200_OK
    /\ inflight[w].status = HTTP_200_OK
    /\ inflight[v].token = inflight[w].token

\* C17: upgrade requests handled side by side are not kept apart: two of
\* them, for two active accounts with correct passwords and the same
\* anonymous session id, can both pass the test for a stored identity before
\* either writes; then both write and both are answered 200 with the same
\* token, and the session carries the identity of the one that wrote last
\* (the one with the later last_login).
C17_LastWriterWins ==
    \A v, w \in Workers :
        (BothUpgraded(v, w) /\ inflight[v].login_at < inflight[w].login_at)
        => /\ inflight[w].token \in DOMAIN sessions
           /\ sessions[inflight[w].token][SESSION_KEY] = inflight[w].user
           /\ last_login[inflight[w].user] = inflight[w].login_at

\* Two workers were answered 200 for the same token on behalf of different
\* accounts, and the session carries the identity of the later writer, not
\* the earlier one's.
C17_Witness ==
    \E v, w \in Workers :
        /\ BothUpgraded(v, w)
        /\ inflight[v].user # inflight[w].user
        /\ inflight[v].token = inflight[v].session_id
        /\ inflight[v].login_at < inflight[w].login_at
        /\ sessions[inflight[w].token][SESSION_KEY] = inflight[w].user
        /\ sessions[inflight[w].token][SESSION_KEY] # inflight[v].user

====
